---- MODULE Spec2Model ----
(***************************************************************************)
(* Model of MaestroClient (src/maestro_client/maestro_client.py): the      *)
(* session/token cache, authenticate(), _auth_headers(), request_raw()     *)
(* with _normalize_url and the headers and body it sends, the accessors    *)
(* and set_organization(), used by concurrent callers (threads) that share *)
(* one client and its threading.Lock.                                      *)
(*                                                                         *)
(* threading.Lock is NOT re-entrant: acquire blocks while the lock is      *)
(* held, whoever holds it.                                                 *)
(***************************************************************************)
EXTENDS Integers, Sequences, FiniteSets, TLC

\* ------------------------------------------------------------------ bounds
MaxLogins == 2          \* login requests the server answers with a response
MaxKwargs == 2          \* keyword arguments given to tasks.list
MaxPathLen == 4         \* pieces of a path given to request_raw
MaxTicks == 1           \* clock advances in one behaviour

\* ------------------------------------------------------- program constants
TokenValidity == 3600   \* time.time() + 3600.0
DefaultTokenSkew == 10  \* token_skew: int = 10

Callers == {"c1", "c2"}
SeqCallers == {"c1"}

None == "None"          \* Python None; f"Bearer {None}" renders it "None"
NoHeader == "<absent>"  \* a header key that is not in the dict
Free == "<free>"        \* the lock is not held

\* clock advances (seconds): to just before / exactly the skewed expiry of a
\* token stored at the time of the advance
TickSteps == {TokenValidity - DefaultTokenSkew - 1, TokenValidity - DefaultTokenSkew}
\* values of the constructor argument token_skew
TokenSkews == {DefaultTokenSkew, TokenValidity}
\* arguments of set_organization
OrgInputs == {"oX", ""}
\* status codes of the login endpoint and of the API
LoginStatuses == {200, 304, 403}
RequestStatuses == {200, 304, 401, 404}

\* the n-th login response of the server carries its own token/organization
\* strings that _normalize_url inspects are sequences of these pieces
Slash == <<"/">>
Http == <<"http:", "/", "/">>
Https == <<"https:", "/", "/">>
ApiPrefix == <<"/", "api", "/", "v2">>
LegacyPrefix == <<"/", "maestro", "/", "api">>
TaskPath == <<"/", "api", "/", "v2", "/", "task">>
DefaultBaseUrl == <<"https:", "/", "/", "developers.botcity.dev">>
DefaultOrgHeader == "X-Organization"

\* the pieces paths are made of, and the paths given to request_raw
PathPieces == {"/", "api", "v2", "maestro", "http:", "task"}
Paths == UNION {[1..n -> PathPieces] : n \in 0..MaxPathLen}

\* base_url as given to the constructor: with and without a trailing slash,
\* with and without a scheme
BaseUrlInputs == {DefaultBaseUrl, DefaultBaseUrl \o <<"/">>, <<"localhost:8080">>}

\* default_org_header as given to the constructor (the class docstring names
\* both)
OrgHeaderNames == {DefaultOrgHeader, "Organization"}

\* headers given to request_raw: none; _ResultFilesAPI.upload's; the caller's
\* own Authorization; the organization header and one more
CallerHeaders ==
    { [k \in {} |-> ""],
      ("Content-Type" :> None),
      ("Authorization" :> "Bearer mine"),
      (DefaultOrgHeader :> "oC") @@ ("X-Trace" :> "1") }

\* keyword arguments given to tasks.list: <<name, value>> pairs with
\* different names, in the order of the call (server.py passes status)
KwargNames == {"status", "page", "size"}
KwargValues == {None, "RUNNING", "1"}
Kwargs ==
    { kw \in UNION {[1..n -> KwargNames \X KwargValues] : n \in 0..MaxKwargs} :
          \A i, j \in DOMAIN kw : i # j => kw[i][1] # kw[j][1] }

\* json and files given to request_raw (None: not given)
JsonInputs == {None, "{meta}"}
FilesInputs == {None, "{file}"}

TokenOf(n) == "t" \o ToString(n)
OrgOf(n) == "o" \o ToString(n)

VARIABLES
    token,          \* self._token
    organization,   \* self._organization
    expires_at,     \* self._token_expires_at
    token_skew,     \* self.token_skew
    lock,           \* self._lock: Free or the caller that holds it
    now,            \* time.time()
    ticks,          \* clock advances so far
    logins,         \* login responses the server has sent
    issued_at,      \* history: the clock when the cached token was stored
    recording,      \* whether the run keeps the history `returned`
    returned,       \* history: the latest login response (its number) that a
                    \*   successful authenticate() has returned
    base_url,       \* self.base_url
    org_header_name,\* self.org_header_name
    path,           \* request_raw's argument path (of every call of the run)
    headers,        \* request_raw's argument headers
    json,           \* request_raw's argument json
    files,          \* request_raw's argument files
    kwargs,         \* tasks.list's keyword arguments, in the order given
    pc,             \* per caller: position in the code
    frame,          \* per caller: the locals of the operation in progress
                    \*   op          public operation
                    \*   ctx         who called authenticate()
                    \*   retry       retry_on_401
                    \*   arg         set_organization's argument
                    \*   resp        login response (resp in authenticate)
                    \*   hdr         base_headers built by _auth_headers
                    \*   path        path as request_raw received it
                    \*   url         url (line 224)
                    \*   sent        what the last requests.request call sent
                    \*   status      resp.status_code of the first dispatch
                    \*   floor       history: `returned` when the call began
                    \*   dispatches  requests.request calls so far
                    \*   authCalls   authenticate() invocations so far
    result          \* per caller: what the last operation returned or raised

session == <<token, organization, expires_at, issued_at>>
config == <<token_skew, base_url, org_header_name>>
args == <<path, headers, json, files, kwargs>>
clock == <<now, ticks>>
vars == <<token, organization, expires_at, token_skew, lock, now, ticks, logins,
          issued_at, recording, returned, base_url, org_header_name, path, headers, json,
          files, kwargs, pc, frame, result>>

\* ------------------------------------------------------------ pure helpers

\* the clock when the client is constructed: any value well past the epoch
StartTime == 2 * TokenValidity

\* (mutant of Truthy) only None is false
TruthyUnlessNone(v) == v # None

\* bool(x) of an Optional[str]
Truthy(v) == v # None /\ v # ""

\* a JSON object is a function from its keys to values; {} is the empty one
EmptyDict == [k \in {} |-> ""]

\* dict.get(k): None when the key is missing
Get(d, k) == IF k \in DOMAIN d THEN d[k] ELSE None

\* requests.Response.ok: raise_for_status() raises for 400 <= status < 600 only
RespOk(st) == ~(st >= 400 /\ st < 600)

NoResp == [status |-> 0, kind |-> "none", json |-> EmptyDict]
NoHdr == [tok |-> NoHeader, org |-> NoHeader]
NoResult == [kind |-> "none", status |-> 0, ok |-> FALSE, resp |-> NoResp,
             value |-> None]
NoSent == [headers |-> EmptyDict, json |-> None, files |-> None]
NoFrame == [op |-> "none", ctx |-> "none", retry |-> FALSE, arg |-> None,
            resp |-> NoResp, hdr |-> NoHdr, dispatches |-> 0, authCalls |-> 0,
            url |-> << >>, sent |-> NoSent, status |-> 0, floor |-> 0,
            path |-> << >>]

\* decoded bodies the login endpoint can send with its n-th response
LoginObjects(n) ==
    { [accessToken |-> TokenOf(n), organizationLabel |-> OrgOf(n)],
      [organizationLabel |-> OrgOf(n)],                        \* no token
      [accessToken |-> TokenOf(n), organizationLabel |-> ""],  \* empty org
      EmptyDict }

\* kind "object": a JSON object; "text": not parseable as JSON;
\* "array": JSON that is no object (resp.json() returns a list)
LoginResponses(n) ==
    { [status |-> st, kind |-> "object", json |-> j] :
          st \in LoginStatuses, j \in LoginObjects(n) }
    \cup { [status |-> st, kind |-> k, json |-> EmptyDict] :
          st \in LoginStatuses, k \in {"text", "array"} }

\* _safe_json: resp.json(), or {} when parsing raises
SafeJson(r) == IF r.kind = "text" THEN EmptyDict ELSE r.json

\* (mutant of AuthOutcome) line 156 tests the token alone
AuthOutcomeTokenOnly(r) ==
    IF ~RespOk(r.status) THEN "MaestroClientError"
    ELSE IF r.kind = "array" THEN "AttributeError"
    ELSE IF ~Truthy(Get(SafeJson(r), "accessToken")) THEN "MaestroClientError"
    ELSE "ok"

\* (mutant of AuthOutcome) the status of the login response is not checked
AuthOutcomeAnyStatus(r) ==
    IF r.kind = "array" THEN "AttributeError"
    ELSE IF ~Truthy(Get(SafeJson(r), "accessToken"))
            \/ ~Truthy(Get(SafeJson(r), "organizationLabel"))
         THEN "MaestroClientError"
    ELSE "ok"

\* authenticate, lines 149-157: what the checks of the response end in
AuthOutcome(r) ==
    IF ~RespOk(r.status) THEN "MaestroClientError"
    ELSE IF r.kind = "array" THEN "AttributeError"   \* list has no .get
    ELSE IF ~Truthy(Get(SafeJson(r), "accessToken"))
            \/ ~Truthy(Get(SafeJson(r), "organizationLabel"))
         THEN "MaestroClientError"
    ELSE "ok"

\* (mutant of IsTokenValid) the skew is not subtracted
IsTokenValidNoSkew ==
    Truthy(token) /\ now < expires_at

\* (mutant of IsTokenValid) every cached value passes, the absent token too
IsTokenValidAlways == TRUE

\* _is_token_valid
IsTokenValid ==
    Truthy(token) /\ now < expires_at - token_skew

\* (mutant of CanAcquire) the critical sections are not exclusive
CanAcquireUnlocked(t) == TRUE

\* threading.Lock.acquire: blocks while the lock is held, by anyone
CanAcquire(t) == lock = Free

\* (mutant of ExpiryFrom) the validity window is taken in minutes
ExpiryFromMinutes(t0) == t0 + 60

\* line 164: time.time() + 3600.0
ExpiryFrom(t0) == t0 + TokenValidity

\* (mutant of LockAfterRaise) an exception leaves the lock as it is
LockKeptAfterRaise(t) == lock

\* the lock after an exception left authenticate(): the `with self._lock`
\* of the caller (_auth_headers, request_raw's retry) releases it
LockAfterRaise(t) ==
    IF frame[t].ctx \in {"headers", "forced"} THEN Free ELSE lock

\* the number n of the login response that carried the token tok = TokenOf(n)
\* (0: no login's token)
TokenNo(tok) ==
    IF \E n \in 1..MaxLogins : tok = TokenOf(n)
    THEN CHOOSE n \in 1..MaxLogins : tok = TokenOf(n)
    ELSE 0

\* the number of the login response r
LoginNo(r) == TokenNo(Get(SafeJson(r), "accessToken"))

\* str.startswith, on a string given as the sequence of its pieces
StartsWith(s, p) == Len(s) >= Len(p) /\ SubSeq(s, 1, Len(p)) = p

\* str.rstrip("/")
RECURSIVE RStrip(_)
RStrip(s) ==
    IF s # << >> /\ s[Len(s)] = "/" THEN RStrip(SubSeq(s, 1, Len(s) - 1)) ELSE s

\* (mutant of NormalizeUrl) the prefix is put in front without looking for it
NormalizeUrlAlwaysPrefix(p) ==
    IF StartsWith(p, Http) \/ StartsWith(p, Https) THEN p
    ELSE LET slashed == IF ~StartsWith(p, Slash) THEN Slash \o p ELSE p
         IN  base_url \o ApiPrefix \o slashed

\* (mutant of NormalizeUrl) the prefix test comes before the leading slash
NormalizeUrlPrefixFirst(p) ==
    IF StartsWith(p, Http) \/ StartsWith(p, Https) THEN p
    ELSE LET prefixed == IF ~StartsWith(p, ApiPrefix) THEN ApiPrefix \o p ELSE p
             slashed == IF ~StartsWith(prefixed, Slash) THEN Slash \o prefixed
                        ELSE prefixed
         IN  base_url \o slashed

\* _normalize_url
NormalizeUrl(p) ==
    IF StartsWith(p, Http) \/ StartsWith(p, Https) THEN p
    ELSE LET slashed == IF ~StartsWith(p, Slash) THEN Slash \o p ELSE p
             prefixed == IF ~StartsWith(slashed, ApiPrefix) THEN ApiPrefix \o slashed
                         ELSE slashed
         IN  base_url \o prefixed

\* (mutant of Update) the entries already in the dict win
UpdateKeepsOld(d, e) ==
    [k \in DOMAIN d \cup DOMAIN e |-> IF k \in DOMAIN d THEN d[k] ELSE e[k]]

\* dict.update
Update(d, e) ==
    [k \in DOMAIN d \cup DOMAIN e |-> IF k \in DOMAIN e THEN e[k] ELSE d[k]]

\* _auth_headers, lines 183-190: the dict made of the token and the
\* organization that were read (h.org is NoHeader when line 188 skipped it)
AuthHeaders(h) ==
    Update(("Authorization" :> ("Bearer " \o h.tok))
               @@ ("Content-Type" :> "application/json"),
           IF h.org = NoHeader THEN EmptyDict ELSE (org_header_name :> h.org))

\* lines 226-227 (and 246-247): if headers: base_headers.update(headers)
RequestHeaders(h, extra) ==
    IF extra # EmptyDict THEN Update(AuthHeaders(h), extra) ELSE AuthHeaders(h)

\* "&".join(parts), on strings given as sequences of pieces
RECURSIVE Join(_)
Join(parts) ==
    IF parts = << >> THEN << >>
    ELSE IF Len(parts) = 1 THEN parts[1]
    ELSE parts[1] \o <<"&">> \o Join(Tail(parts))

\* line 323: f"{k}={v}" for k, v in kwargs.items() if v is not None
RECURSIVE QueryParts(_)
QueryParts(kw) ==
    IF kw = << >> THEN << >>
    ELSE (IF kw[1][2] # None THEN << <<kw[1][1], "=", kw[1][2]>> >> ELSE << >>)
             \o QueryParts(Tail(kw))

\* lines 323-324: the path tasks.list gives to request_raw
TaskListPath(kw) == TaskPath \o <<"?">> \o Join(QueryParts(kw))

\* (mutant of SentJson) the JSON body is sent along with the files
SentJsonAlways(j, f) == j

\* lines 234 and 253: json=json if files is None else None
SentJson(j, f) == IF f = None THEN j ELSE None

\* _wrap_response
WrapResponse(st) ==
    [kind |-> "MaestroResponse", status |-> st, ok |-> RespOk(st), resp |-> NoResp,
     value |-> None]

\* an exception of class kind, raised while handling the login response r
\* (NoResp: none); MaestroClientError's message quotes r (lines 150, 157)
Raised(kind, r) ==
    [kind |-> kind, status |-> r.status, ok |-> FALSE, resp |-> r, value |-> None]

\* ------------------------------------------------------------------- state

\* __init__, lines 108-112: the client as constructed
Constructed ==
    /\ token = None
    /\ organization = None
    /\ expires_at = 0
    /\ token_skew \in TokenSkews
    /\ lock = Free
    /\ now = StartTime
    /\ ticks = 0
    /\ logins = 0
    /\ issued_at = 0
    /\ returned = 0
    /\ pc = [t \in Callers |-> "idle"]
    /\ frame = [t \in Callers |-> NoFrame]
    /\ result = [t \in Callers |-> NoResult]

\* request_raw is called as _TasksAPI does: no headers, no body, no files
PlainCalls ==
    /\ path = TaskPath
    /\ headers = EmptyDict
    /\ json = None
    /\ files = None
    /\ kwargs = << >>

Init ==
    /\ Constructed
    /\ base_url = RStrip(DefaultBaseUrl)
    /\ org_header_name = DefaultOrgHeader
    /\ PlainCalls
    /\ recording = FALSE

Goto(t, l) == pc' = [pc EXCEPT ![t] = l]

\* a caller starts a public operation
Begin(t, f, first) ==
    /\ Goto(t, first)
    /\ frame' = [frame EXCEPT ![t] = f]
    /\ result' = [result EXCEPT ![t] = NoResult]
    /\ UNCHANGED <<session, config, args, recording, returned, lock, clock, logins>>

\* the operation of caller t ends: it returns v or raises v, and its locals
\* are gone
End(t, v) ==
    /\ Goto(t, "idle")
    /\ result' = [result EXCEPT ![t] = v]
    /\ frame' = [frame EXCEPT ![t] = NoFrame]

\* ------------------------------------------------- public operations begin

\* client.authenticate()
CallAuthenticate(t) ==
    /\ pc[t] = "idle"
    /\ Begin(t, [NoFrame EXCEPT !.op = "authenticate", !.ctx = "explicit",
                                !.authCalls = 1], "auth_post")

\* client.request_raw(method, path, retry_on_401=r): line 224 is pure, line
\* 225 enters _auth_headers
CallRequestRaw(t, r) ==
    /\ pc[t] = "idle"
    /\ Begin(t, [NoFrame EXCEPT !.op = "request_raw", !.retry = r, !.path = path,
                                !.url = NormalizeUrl(path), !.floor = returned],
             "hdr_acquire")

\* client.tasks.list(**kwargs): line 323 builds the query string, line 324
\* calls request_raw("GET", f"/api/v2/task?{query_params}")
CallTasksList(t) ==
    /\ pc[t] = "idle"
    /\ Begin(t, [NoFrame EXCEPT !.op = "request_raw", !.retry = TRUE,
                                !.path = TaskListPath(kwargs),
                                !.url = NormalizeUrl(TaskListPath(kwargs)),
                                !.floor = returned],
             "hdr_acquire")

\* client.set_organization(o)
CallSetOrganization(t, o) ==
    /\ pc[t] = "idle"
    /\ Begin(t, [NoFrame EXCEPT !.op = "set_organization", !.arg = o], "setorg_acquire")

\* ------------------------------------------------------------ authenticate

\* line 147: requests.post(url, json=payload, timeout=...) is sent
AuthPost(t) ==
    /\ pc[t] = "auth_post"
    /\ Goto(t, "auth_wait")
    /\ UNCHANGED <<session, config, args, recording, returned, lock, clock, logins, frame, result>>

\* lines 147-157: the login endpoint answers with a response r; resp.ok, _safe_json and
\* the two fields are checked, and a bad response raises out of authenticate
\* and of every `with self._lock` around the call
AuthRecv(t) ==
    /\ pc[t] = "auth_wait"
    /\ logins < MaxLogins
    /\ logins' = logins + 1
    /\ \E r \in LoginResponses(logins + 1) :
          IF AuthOutcome(r) = "ok"
          THEN /\ frame' = [frame EXCEPT ![t].resp = r]
               /\ Goto(t, "auth_acquire")
               /\ UNCHANGED <<lock, result>>
          ELSE /\ End(t, Raised(AuthOutcome(r), r))
               /\ lock' = LockAfterRaise(t)
    /\ UNCHANGED <<session, config, args, recording, returned, clock>>

\* line 147: requests.post raises (connection refused, timeout, DNS)
AuthTransportError(t) ==
    /\ pc[t] = "auth_wait"
    /\ End(t, Raised("TransportError", NoResp))
    /\ lock' = LockAfterRaise(t)
    /\ UNCHANGED <<session, config, args, recording, returned, clock, logins>>

\* line 159: with self._lock (enter)
AuthAcquire(t) ==
    /\ pc[t] = "auth_acquire"
    /\ CanAcquire(t)
    /\ lock' = t
    /\ Goto(t, "auth_token")
    /\ UNCHANGED <<session, config, args, recording, returned, clock, logins, frame, result>>

\* line 160: self._token = token
AuthWriteToken(t) ==
    /\ pc[t] = "auth_token"
    /\ token' = Get(SafeJson(frame[t].resp), "accessToken")
    /\ Goto(t, "auth_org")
    /\ UNCHANGED <<organization, expires_at, issued_at, config, args, recording, returned, lock, clock, logins,
                   frame, result>>

\* line 161: self._organization = organization
AuthWriteOrg(t) ==
    /\ pc[t] = "auth_org"
    /\ organization' = Get(SafeJson(frame[t].resp), "organizationLabel")
    /\ Goto(t, "auth_expiry")
    /\ UNCHANGED <<token, expires_at, issued_at, config, args, recording, returned, lock, clock, logins, frame,
                   result>>

\* line 164: self._token_expires_at = time.time() + 3600.0
AuthWriteExpiry(t) ==
    /\ pc[t] = "auth_expiry"
    /\ expires_at' = ExpiryFrom(now)
    /\ issued_at' = now
    /\ Goto(t, "auth_exit")
    /\ UNCHANGED <<token, organization, config, args, recording, returned, lock, clock, logins, frame, result>>

\* line 159 (exit of the with) and lines 166-173: the lock is released and
\* authenticate returns to its caller:
\*   explicit: the public call returns the MaestroResponse;
\*   headers:  _auth_headers goes on at line 183;
\*   forced:   request_raw leaves its own `with self._lock` (line 242), which
\*             releases a lock that is no longer held: RuntimeError
AuthReturn(t) ==
    /\ pc[t] = "auth_exit"
    /\ lock' = Free
    /\ CASE frame[t].ctx = "explicit" ->
                End(t, [kind |-> "MaestroResponse", status |-> frame[t].resp.status,
                        ok |-> TRUE, resp |-> frame[t].resp, value |-> None])
         [] frame[t].ctx = "headers" ->
                /\ Goto(t, "hdr_token")
                /\ UNCHANGED <<frame, result>>
         [] OTHER ->
                End(t, Raised("RuntimeError", NoResp))
    /\ returned' = IF recording /\ LoginNo(frame[t].resp) > returned
                   THEN LoginNo(frame[t].resp) ELSE returned
    /\ UNCHANGED <<session, config, args, recording, clock, logins>>

\* ----------------------------------------------------------- _auth_headers

\* line 179: with self._lock (enter)
HdrAcquire(t) ==
    /\ pc[t] = "hdr_acquire"
    /\ CanAcquire(t)
    /\ lock' = t
    /\ Goto(t, "hdr_check")
    /\ UNCHANGED <<session, config, args, recording, returned, clock, logins, frame, result>>

\* lines 180-181: if not self._is_token_valid(): self.authenticate()
HdrCheck(t) ==
    /\ pc[t] = "hdr_check"
    /\ IF IsTokenValid
       THEN /\ Goto(t, "hdr_token")
            /\ UNCHANGED frame
       ELSE /\ Goto(t, "auth_post")
            /\ frame' = [frame EXCEPT ![t].ctx = "headers", ![t].authCalls = @ + 1]
    /\ UNCHANGED <<session, config, args, recording, returned, lock, clock, logins, result>>

\* lines 183-186: "Authorization": f"Bearer {self._token}"
HdrReadToken(t) ==
    /\ pc[t] = "hdr_token"
    /\ frame' = [frame EXCEPT ![t].hdr = [tok |-> token, org |-> NoHeader]]
    /\ Goto(t, "hdr_org")
    /\ UNCHANGED <<session, config, args, recording, returned, lock, clock, logins, result>>

\* lines 188-190: the organization header, then the with is left: the lock
\* is released (release() of a lock nobody holds raises RuntimeError)
HdrReadOrg(t) ==
    /\ pc[t] = "hdr_org"
    /\ IF lock = Free
       THEN /\ End(t, Raised("RuntimeError", NoResp))
            /\ UNCHANGED lock
       ELSE /\ lock' = Free
            /\ frame' = [frame EXCEPT ![t].hdr.org =
                            IF Truthy(organization) THEN organization ELSE NoHeader]
            /\ Goto(t, "dispatch")
            /\ UNCHANGED result
    /\ UNCHANGED <<session, config, args, recording, returned, clock, logins>>

\* ------------------------------------------------------------- request_raw

\* lines 229-238 and 248-257: requests.request(...) is sent
Dispatch(t) ==
    /\ pc[t] = "dispatch"
    /\ frame' = [frame EXCEPT
                    ![t].dispatches = @ + 1,
                    ![t].sent = [headers |-> RequestHeaders(frame[t].hdr, headers),
                                 json |-> SentJson(json, files),
                                 files |-> files]]
    /\ Goto(t, "req_wait")
    /\ UNCHANGED <<session, config, args, recording, returned, lock, clock, logins, result>>

\* (mutant of RetryWanted) retry_on_401 is not consulted
RetryOnAny401(t, st) == frame[t].dispatches = 1 /\ st = 401

\* line 241, for the response to the first dispatch
RetryWanted(t, st) == frame[t].dispatches = 1 /\ st = 401 /\ frame[t].retry

\* the API answers with status st; line 241 decides between the retry
\* (line 242) and return _wrap_response(resp) (line 259)
RequestRecv(t, st) ==
    /\ pc[t] = "req_wait"
    /\ IF RetryWanted(t, st)
       THEN /\ Goto(t, "forced_acquire")
            /\ frame' = [frame EXCEPT ![t].hdr = NoHdr,   \* rebuilt at line 245
                                      ![t].status = st]
            /\ UNCHANGED result
       ELSE End(t, WrapResponse(st))
    /\ UNCHANGED <<session, config, args, recording, returned, lock, clock, logins>>

\* requests.request raises (connection refused, timeout, DNS)
RequestTransportError(t) ==
    /\ pc[t] = "req_wait"
    /\ End(t, Raised("TransportError", NoResp))
    /\ UNCHANGED <<session, config, args, recording, returned, lock, clock, logins>>

\* lines 242-244: with self._lock: self.authenticate()
ForcedAcquire(t) ==
    /\ pc[t] = "forced_acquire"
    /\ CanAcquire(t)
    /\ lock' = t
    /\ frame' = [frame EXCEPT ![t].ctx = "forced", ![t].authCalls = @ + 1]
    /\ Goto(t, "auth_post")
    /\ UNCHANGED <<session, config, args, recording, returned, clock, logins, result>>

\* -------------------------------------------------------- set_organization

\* line 297: with self._lock (enter)
SetOrgAcquire(t) ==
    /\ pc[t] = "setorg_acquire"
    /\ CanAcquire(t)
    /\ lock' = t
    /\ Goto(t, "setorg_write")
    /\ UNCHANGED <<session, config, args, recording, returned, clock, logins, frame, result>>

\* line 298: self._organization = organization; the with is left
SetOrgWrite(t) ==
    /\ pc[t] = "setorg_write"
    /\ organization' = frame[t].arg
    /\ lock' = Free
    /\ End(t, [kind |-> "None", status |-> 0, ok |-> TRUE, resp |-> NoResp,
               value |-> None])
    /\ UNCHANGED <<token, expires_at, issued_at, config, args, recording, returned, clock, logins>>

\* --------------------------------------------------------------- accessors

\* client.token: return self._token (no lock is taken)
ReadToken(t) ==
    /\ pc[t] = "idle"
    /\ result' = [result EXCEPT ![t] = [NoResult EXCEPT !.kind = "str",
                                                        !.value = token]]
    /\ UNCHANGED <<session, config, args, recording, returned, lock, clock, logins, pc, frame>>

\* client.organization: return self._organization (no lock is taken)
ReadOrganization(t) ==
    /\ pc[t] = "idle"
    /\ result' = [result EXCEPT ![t] = [NoResult EXCEPT !.kind = "str",
                                                        !.value = organization]]
    /\ UNCHANGED <<session, config, args, recording, returned, lock, clock, logins, pc, frame>>

\* ------------------------------------------------------------------- clock

\* time passes
Tick(d) ==
    /\ ticks < MaxTicks
    /\ now' = now + d
    /\ ticks' = ticks + 1
    /\ UNCHANGED <<session, config, args, recording, returned, lock, logins, pc, frame, result>>

\* ----------------------------------------------------------- specification

AuthStep(t) ==
    \/ CallAuthenticate(t)
    \/ AuthPost(t)
    \/ AuthRecv(t)
    \/ AuthTransportError(t)
    \/ AuthAcquire(t)
    \/ AuthWriteToken(t)
    \/ AuthWriteOrg(t)
    \/ AuthWriteExpiry(t)
    \/ AuthReturn(t)

RequestStep(t) ==
    \/ \E r \in BOOLEAN : CallRequestRaw(t, r)
    \/ HdrAcquire(t)
    \/ HdrCheck(t)
    \/ HdrReadToken(t)
    \/ HdrReadOrg(t)
    \/ Dispatch(t)
    \/ \E st \in RequestStatuses : RequestRecv(t, st)
    \/ RequestTransportError(t)
    \/ ForcedAcquire(t)

SetOrgStep(t) ==
    \/ \E o \in OrgInputs : CallSetOrganization(t, o)
    \/ SetOrgAcquire(t)
    \/ SetOrgWrite(t)

AccessorStep(t) ==
    \/ ReadToken(t)
    \/ ReadOrganization(t)

\* one step of caller t
Step(t) == AuthStep(t) \/ RequestStep(t) \/ SetOrgStep(t) \/ AccessorStep(t)

\* concurrent callers of one client
Next ==
    \/ \E t \in Callers : Step(t)
    \/ \E d \in TickSteps : Tick(d)

Spec == Init /\ [][Next]_vars

\* concurrent callers that never use set_organization
NoSetOrgNext ==
    \/ \E t \in Callers : AuthStep(t) \/ RequestStep(t)
    \/ \E d \in TickSteps : Tick(d)

NoSetOrgSpec == Init /\ [][NoSetOrgNext]_vars

\* the same callers, with the history of the returned logins recorded
RecordingInit ==
    /\ Constructed
    /\ base_url = RStrip(DefaultBaseUrl)
    /\ org_header_name = DefaultOrgHeader
    /\ PlainCalls
    /\ recording = TRUE

RecordingSpec == RecordingInit /\ [][NoSetOrgNext]_vars

\* _normalize_url applied to every path, for every base_url: request_raw is
\* called and computes url (line 224)
UrlInit ==
    /\ Constructed
    /\ base_url \in {RStrip(b) : b \in BaseUrlInputs}
    /\ org_header_name = DefaultOrgHeader
    /\ path \in Paths
    /\ headers = EmptyDict
    /\ json = None
    /\ files = None
    /\ kwargs = << >>
    /\ recording = FALSE

UrlNext == \E t \in SeqCallers : \E r \in BOOLEAN : CallRequestRaw(t, r)

UrlSpec == UrlInit /\ [][UrlNext]_vars

\* tasks.list called with every set of keyword arguments
QueryInit ==
    /\ Constructed
    /\ base_url = RStrip(DefaultBaseUrl)
    /\ org_header_name = DefaultOrgHeader
    /\ path = TaskPath
    /\ headers = EmptyDict
    /\ json = None
    /\ files = None
    /\ kwargs \in Kwargs
    /\ recording = FALSE

QueryNext == \E t \in SeqCallers : CallTasksList(t)

QuerySpec == QueryInit /\ [][QueryNext]_vars

\* sequential execution: one caller, one operation after the other.  The
\* caller's thread runs whenever it is not blocked, and every network call
\* ends (a response, or the timeout raises): weak fairness of its steps.
SeqNext ==
    \/ \E t \in SeqCallers : Step(t)
    \/ \E d \in TickSteps : Tick(d)

SeqFairSpec == Init /\ [][SeqNext]_vars /\ \A t \in SeqCallers : WF_vars(Step(t))

\* one caller, whose request_raw calls are given headers, a JSON body and
\* files, on a client with either organization header name
CallArgsInit ==
    /\ Constructed
    /\ base_url = RStrip(DefaultBaseUrl)
    /\ org_header_name \in OrgHeaderNames
    /\ path = TaskPath
    /\ headers \in CallerHeaders
    /\ json \in JsonInputs
    /\ files \in FilesInputs
    /\ kwargs = << >>
    /\ recording = FALSE

CallArgsSpec == CallArgsInit /\ [][SeqNext]_vars

\* the headers argument that is empty or gives an Authorization of the
\* caller's own
AuthorizationHeaders == {h \in CallerHeaders : DOMAIN h \subseteq {"Authorization"}}

\* the callers of NoSetOrgSpec, whose request_raw calls are given no headers
\* or an Authorization header
OwnAuthInit ==
    /\ Constructed
    /\ base_url = RStrip(DefaultBaseUrl)
    /\ org_header_name = DefaultOrgHeader
    /\ path = TaskPath
    /\ headers \in AuthorizationHeaders
    /\ json = None
    /\ files = None
    /\ kwargs = << >>
    /\ recording = FALSE

OwnAuthSpec == OwnAuthInit /\ [][NoSetOrgNext]_vars

\* ================================================================== claims

\* what the claims say, stated without the operators of the model above
Present(v) == v # None
Is2xx(st) == st >= 200 /\ st <= 299
HasField(r, k) == r.kind = "object" /\ k \in DOMAIN r.json /\ r.json[k] \notin {None, ""}
WellFormed(r) == HasField(r, "accessToken") /\ HasField(r, "organizationLabel")
\* the body lacks a field: missing, empty, or the body is not parseable
LacksField(r) == r.kind \in {"object", "text"} /\ ~WellFormed(r)

\* caller t is in authenticate() and the login endpoint has just answered
\* it: the response it got
Answered(t) == pc[t] = "auth_wait" /\ pc'[t] # "auth_wait" /\ logins' = logins + 1
Answer(t) == IF pc'[t] = "idle" THEN result'[t].resp ELSE frame'[t].resp

\* caller t waits for the client lock
WaitsForLock(t) == pc[t] \in {"auth_acquire", "hdr_acquire", "forced_acquire", "setorg_acquire"}

\* C1: a request_raw call that found the cached token absent or expired and
\* whose login was answered 2xx with both fields goes on to dispatch and
\* return: it is never stopped for good, holding the client lock and
\* unable to take any step (waiting for the lock it holds itself).
C1_AutoLoginNeverBlocksOnOwnLock ==
    \A t \in Callers :
        (frame[t].op = "request_raw" /\ frame[t].ctx = "headers")
            => ~(lock = t /\ ~ENABLED Step(t))

\* C2: when the first dispatch returned 401 with retry_on_401, the forced
\* login is carried through and the request is dispatched a second time:
\* between the 401 and the second dispatch the caller is never stopped for
\* good (unable to step although no other caller holds the lock).
C2_RetryAfter401Proceeds ==
    \A t \in Callers :
        (frame[t].op = "request_raw" /\ frame[t].ctx = "forced"
            /\ frame[t].dispatches = 1)
            => (ENABLED Step(t) \/ lock \notin {Free, t})

\* C3: under sequential execution, a request_raw call that started with an
\* expired or absent token invokes authenticate() once and that invocation
\* completes before the dispatch: from the invocation up to the dispatch
\* the (only) caller can always take its next step.
C3_OneLoginThenDispatch ==
    \A t \in SeqCallers :
        (frame[t].op = "request_raw" /\ frame[t].ctx = "headers"
            /\ frame[t].authCalls = 1 /\ frame[t].dispatches = 0)
            => ENABLED Step(t)

\* C4: a batch of concurrent request_raw calls that began under an expired
\* token, with the login answered successfully, gets its requests
\* dispatched with the refreshed session: the batch is never stopped for
\* good with one caller inside the login and every other caller queued on
\* the client lock.
C4_ExpiredBatchIsServed ==
    ~ ( /\ \A t \in Callers : frame[t].op = "request_raw" /\ WaitsForLock(t)
        /\ \E t \in Callers : frame[t].ctx = "headers" /\ pc[t] = "auth_acquire"
        /\ \A t \in Callers : ~ENABLED Step(t) )

\* C5: whenever no caller is inside a critical section, the cached token and
\* the cached organization are both present or both absent.
C5_TokenAndOrgTogether ==
    lock = Free => (Present(token) <=> Present(organization))

\* C6: a login response with a non-2xx status makes authenticate() raise
\* MaestroClientError carrying that status and response, and leaves token,
\* organization and expires_at as they were.
C6_Non2xxLoginFails ==
    [][\A t \in Callers :
        (Answered(t) /\ ~Is2xx(Answer(t).status))
            => /\ pc'[t] = "idle"
               /\ result'[t].kind = "MaestroClientError"
               /\ result'[t].status = Answer(t).status
               /\ <<token, organization, expires_at>>' = <<token, organization, expires_at>>
      ]_vars

FinishesWrite(t) == pc[t] = "auth_expiry" /\ pc'[t] = "auth_exit"

ChecksValidity(t) == pc[t] = "hdr_check" /\ pc'[t] # "hdr_check"

\* C9: the validity check succeeds (no login is started) exactly when a
\* token is cached and, with T the time it was stored, W = 3600 and S the
\* skew, T <= now < T + W - S; it fails from T + W - S on and whenever no
\* token is cached; the check changes nothing of the session.
C9_ValidityWindow ==
    [][\A t \in Callers :
        ChecksValidity(t)
            => /\ (pc'[t] = "hdr_token")
                    <=> ( /\ Present(token)
                          /\ issued_at <= now
                          /\ now < issued_at + TokenValidity - token_skew )
               /\ (pc'[t] = "auth_post") <=> (pc'[t] # "hdr_token")
               /\ <<token, organization, expires_at>>' = <<token, organization, expires_at>>
      ]_vars

\* the check runs exactly at T + W - S of a cached token: the first instant
\* at which it fails
C9_Witness ==
    \E t \in Callers :
        /\ pc[t] = "auth_post" /\ frame[t].ctx = "headers"
        /\ Present(token)
        /\ token_skew = DefaultTokenSkew
        /\ now = issued_at + TokenValidity - token_skew

\* C10: every request request_raw dispatches carries a bearer token and an
\* organization header value that come from the same successful login
\* response (callers of request_raw and authenticate only).
C10_HeadersFromOneLogin ==
    \A t \in Callers :
        pc[t] \in {"dispatch", "req_wait"}
            => \E n \in 1..logins :
                   /\ frame[t].hdr.tok = TokenOf(n)
                   /\ frame[t].hdr.org = OrgOf(n)

\* a request is in flight with the first login's pair while another caller
\* is half-way through storing the second login's session
C10_Witness ==
    \E t, u \in Callers :
        /\ pc[t] = "req_wait"
        /\ frame[t].hdr = [tok |-> TokenOf(1), org |-> OrgOf(1)]
        /\ pc[u] = "auth_org"
        /\ token = TokenOf(2) /\ organization = OrgOf(1)

\* ------------------------------------------------------------------- C11

\* C11: once an authenticate() has returned the token of login response n,
\* every request_raw that starts afterwards sends the token of response n or
\* of a response the server gave later, never the token of an older response.
C11_NoOlderTokenAfterReturn ==
    \A t \in Callers :
        pc[t] = "req_wait" => TokenNo(frame[t].hdr.tok) >= frame[t].floor

\* ------------------------------------------------------------------- C12

\* the callers whose login POST is sent and not yet answered
LoginsInFlight == {t \in Callers : pc[t] = "auth_wait"}

\* C12: the logins of one client are serialized: at most one login request
\* is in flight at any time.
C12_OneLoginInFlight == Cardinality(LoginsInFlight) <= 1

\* ------------------------------------------------------------------- C13

\* request_raw of caller t returns or raises on the API's answer
RequestEnds(t) == pc[t] = "req_wait" /\ pc'[t] = "idle"

\* C13: an HTTP-level failure is a value: request_raw ends on a response by
\* returning the envelope of that response, whose ok is true exactly when the
\* status is 2xx, and only a transport error makes it raise at that point.
C13_OkExactlyFor2xx ==
    [][\A t \in Callers :
          RequestEnds(t) =>
              \/ result'[t].kind = "TransportError"
              \/ /\ result'[t].kind = "MaestroResponse"
                 /\ result'[t].status \in RequestStatuses
                 /\ result'[t].ok = Is2xx(result'[t].status)]_vars

\* ------------------------------------------------------------------- C14

\* the API's answer or a transport error moves caller t on from its dispatch
RequestAnswered(t) == pc[t] = "req_wait" /\ pc'[t] # "req_wait"

\* the status of that answer (0: a transport error)
AnswerStatus(t) == IF pc'[t] = "idle" THEN result'[t].status ELSE frame'[t].status

\* C14: request_raw forces a login only after a first response 401 with
\* retry_on_401; with any other first response, or without retry_on_401, it
\* ends after its one dispatch; a transport error ends the call at once; and
\* no call dispatches more than twice.
C14_RetryBudget ==
    [][\A t \in Callers :
          /\ frame'[t].dispatches <= 2
          /\ RequestAnswered(t) =>
                \/ /\ pc'[t] = "idle"
                   /\ result'[t].kind \in {"MaestroResponse", "TransportError"}
                \/ /\ pc'[t] = "forced_acquire"
                   /\ frame[t].dispatches = 1
                   /\ frame[t].retry
                   /\ frame'[t].status = 401
          /\ (RequestAnswered(t) /\ frame[t].dispatches = 1
                 /\ (~frame[t].retry \/ AnswerStatus(t) # 401)) =>
                /\ pc'[t] = "idle"
                /\ frame[t].ctx # "forced"
                /\ logins' = logins]_vars

\* one call was answered 401 with retry_on_401 and goes to the forced login,
\* another was answered 401 without it and has returned the 401 envelope
C14_Witness ==
    \E t, u \in Callers :
        /\ pc[t] = "forced_acquire" /\ frame[t].status = 401
        /\ pc[u] = "idle" /\ result[u].kind = "MaestroResponse"
        /\ result[u].status = 401 /\ ~result[u].ok

\* ------------------------------------------------------------------- C15

\* caller t is inside _auth_headers: at the validity check, in the login it
\* started there, or reading the token and the organization
BuildsHeaders(t) ==
    \/ pc[t] \in {"hdr_check", "hdr_token", "hdr_org"}
    \/ /\ frame[t].ctx = "headers"
       /\ pc[t] \in {"auth_post", "auth_wait", "auth_acquire", "auth_token",
                     "auth_org", "auth_expiry", "auth_exit"}

\* the request of caller t is about to be sent or is in flight
Dispatching(t) == pc[t] \in {"dispatch", "req_wait"}

\* C15: a caller holds the client lock all through the check of the token,
\* the login that check may start and the reading of token and organization,
\* and no caller holds it while its own request is in flight.
C15_LockAroundHeadersOnly ==
    \A t \in Callers :
        /\ BuildsHeaders(t) => lock = t
        /\ Dispatching(t) => lock # t

\* one caller's request is in flight while another caller, holding the lock,
\* builds its headers from the cached token
C15_Witness ==
    \E t, u \in Callers :
        /\ pc[t] = "req_wait"
        /\ pc[u] = "hdr_token" /\ lock = u /\ IsTokenValid

\* ------------------------------------------------------------------- C16

\* the three fields of the session
Cached == <<token, organization, expires_at>>

\* caller t is in the critical section of authenticate() (lines 159-164)
\* with a login response that passed the checks of lines 149-157
WritesLogin(t) ==
    /\ pc[t] \in {"auth_token", "auth_org", "auth_expiry"}
    /\ lock = t
    /\ RespOk(frame[t].resp.status) /\ WellFormed(frame[t].resp)

\* while a login is being written (and until authenticate() leaves its
\* critical section) the writer holds the lock
WholesaleUnderLock ==
    \A t \in Callers :
        pc'[t] \in {"auth_token", "auth_org", "auth_expiry", "auth_exit"}
            => lock' = t

\* C16 as claimed: the session is changed by a successful login only, all
\* three fields under one hold of the lock; every other public operation
\* (failed authenticate, request_raw, set_organization, the accessors)
\* leaves token, organization and expires_at as they are.
C16_OnlyLoginChangesSession ==
    [][/\ Cached' # Cached => \E t \in Callers : WritesLogin(t)
       /\ WholesaleUnderLock]_vars

\* C16, amended: the session is changed by a successful login, all three
\* fields under one hold of the lock, and by set_organization, which stores
\* its argument as the organization, under the lock, and leaves token and
\* expires_at; no other public operation changes the session.
C16_OnlyLoginOrSetOrgChangesSession ==
    [][/\ Cached' # Cached =>
             \E t \in Callers :
                 \/ WritesLogin(t)
                 \/ /\ pc[t] = "setorg_write" /\ lock = t
                    /\ organization' = frame[t].arg
                    /\ token' = token /\ expires_at' = expires_at
       /\ WholesaleUnderLock]_vars

\* set_organization has replaced the organization of the first login's
\* session, and a later login that failed has left that session as it was
C16_Witness ==
    \E t, u \in Callers :
        /\ pc[t] = "idle" /\ pc[u] = "idle" /\ lock = Free
        /\ token = TokenOf(1) /\ organization = "oX"
        /\ expires_at = issued_at + TokenValidity
        /\ result[t].kind = "MaestroClientError" /\ logins = 2
        /\ result[u].kind = "None"

\* ------------------------------------------------------------------- C17

\* the request of caller t is in flight
InFlight(t) == pc[t] = "req_wait"

\* the headers d, where the caller's headers replace or extend them
CallerWins(d, h) ==
    /\ DOMAIN h = DOMAIN d \cup DOMAIN headers
    /\ \A k \in DOMAIN h : h[k] = IF k \in DOMAIN headers THEN headers[k] ELSE d[k]

\* Authorization and Content-Type as the claim gives them
TokenHeaders ==
    ("Authorization" :> ("Bearer " \o token)) @@ ("Content-Type" :> "application/json")

\* C17 as claimed: every request sent carries Authorization: Bearer <cached
\* token>, Content-Type: application/json and <org header name>: <cached
\* organization>, except that a header the caller gave has the caller's
\* value, and the caller's other headers are added.
C17_HeadersAlwaysWithOrg ==
    \A t \in SeqCallers :
        InFlight(t) =>
            CallerWins((org_header_name :> organization) @@ TokenHeaders,
                       frame[t].sent.headers)

\* C17, amended: the organization header is among them when the cached
\* organization is not empty, and no organization header is built when it
\* is empty.
C17_HeadersWithOrgIfAny ==
    \A t \in SeqCallers :
        InFlight(t) =>
            CallerWins(IF organization = ""
                       THEN TokenHeaders
                       ELSE (org_header_name :> organization) @@ TokenHeaders,
                       frame[t].sent.headers)

\* a request is in flight whose Content-Type is the caller's, next to the
\* Authorization and the organization header of the cached session
C17_Witness ==
    \E t \in SeqCallers :
        /\ InFlight(t)
        /\ headers = ("Content-Type" :> None)
        /\ frame[t].sent.headers =
               ("Authorization" :> "Bearer t1") @@ ("Content-Type" :> None)
                   @@ (org_header_name :> "o1")

\* ------------------------------------------------------------------- C18

UrlComputed(t) == pc[t] # "idle" /\ frame[t].op = "request_raw"

\* the path p is the prefix itself or lies under it
Under(p, prefix) == p = prefix \/ StartsWith(p, prefix \o Slash)

\* C19: a relative path under /api/v2 and a relative path under
\* /maestro/api both resolve to base_url followed by the path as given: no
\* other prefix is put in front of it.
C19_BothPrefixesKept ==
    \A t \in SeqCallers :
        (UrlComputed(t) /\ (Under(path, ApiPrefix) \/ Under(path, LegacyPrefix)))
            => frame[t].url = base_url \o path

\* ------------------------------------------------------------------- C20

\* the path is resolved against base_url (it is no http:// or https:// URL)
Relative(p) == ~StartsWith(p, Http) /\ ~StartsWith(p, Https)

\* C20: a relative path without a leading slash resolves to the URL that the
\* same path with a slash put in front resolves to.
C20_LeadingSlashOptional ==
    \A t \in SeqCallers :
        (UrlComputed(t) /\ Relative(path) /\ ~StartsWith(path, Slash))
            => frame[t].url = NormalizeUrl(Slash \o path)

\* request_raw was called with "api/v2" and resolved it as "/api/v2": the
\* slash was added before the prefix was looked for
C20_Witness ==
    \E t \in SeqCallers :
        /\ UrlComputed(t)
        /\ path = <<"api", "/", "v2">>
        /\ frame[t].url = base_url \o ApiPrefix

\* ------------------------------------------------------------------- C21

\* base_url names its scheme
HasScheme(b) == StartsWith(b, Http) \/ StartsWith(b, Https)

\* an absolute URL is returned as given, and a path that starts with
\* /api/v2 gets no second prefix
AbsoluteAndPrefixedKept(t) ==
    /\ ~Relative(path) => frame[t].url = path
    /\ (Relative(path) /\ StartsWith(path, ApiPrefix))
           => frame[t].url = base_url \o path

\* C21 as claimed: an absolute http(s) URL is returned verbatim, a path with
\* the /api/v2 prefix does not get it twice, and normalizing the URL that
\* normalization returned gives that URL again, whatever base_url the client
\* was constructed with.
C21_IdempotentAnyBaseUrl ==
    \A t \in SeqCallers :
        UrlComputed(t) =>
            /\ AbsoluteAndPrefixedKept(t)
            /\ NormalizeUrl(frame[t].url) = frame[t].url

\* C21, amended: normalizing the returned URL gives that URL again when
\* base_url starts with http:// or https://.
C21_IdempotentWithScheme ==
    \A t \in SeqCallers :
        UrlComputed(t) =>
            /\ AbsoluteAndPrefixedKept(t)
            /\ (HasScheme(base_url) \/ ~Relative(path))
                   => NormalizeUrl(frame[t].url) = frame[t].url

\* a relative path was resolved against a base_url with a scheme, the prefix
\* was put in front once, and the URL normalizes to itself
C21_Witness ==
    \E t \in SeqCallers :
        /\ UrlComputed(t)
        /\ HasScheme(base_url)
        /\ path = <<"/", "task">>
        /\ frame[t].url = base_url \o ApiPrefix \o path
        /\ NormalizeUrl(frame[t].url) = frame[t].url

\* ------------------------------------------------------------------- C22

\* the pieces of a string
Pieces(p) == {p[i] : i \in DOMAIN p}

\* the places in p where name=value stands
Occurrences(p, name, value) ==
    {i \in 1..(Len(p) - 2) : p[i] = name /\ p[i + 1] = "=" /\ p[i + 2] = value}

\* C22: in the path tasks.list builds, a keyword argument whose value is
\* None does not appear, every other one appears once as name=value, and when
\* no argument has a value the path has no query part (no "?").
C22_NoneOmittedNoEmptyQuery ==
    \A t \in SeqCallers :
        UrlComputed(t) =>
            LET p == frame[t].path IN
            /\ \A i \in DOMAIN kwargs :
                  IF kwargs[i][2] = None
                  THEN kwargs[i][1] \notin Pieces(p)
                  ELSE /\ Cardinality(Occurrences(p, kwargs[i][1], kwargs[i][2])) = 1
                       /\ Cardinality({j \in DOMAIN p : p[j] = kwargs[i][1]}) = 1
            /\ (\A i \in DOMAIN kwargs : kwargs[i][2] = None) => "?" \notin Pieces(p)

\* ------------------------------------------------------------------- C23

\* set_organization of caller t stores its argument and returns
SetOrgDone(t) == pc[t] = "setorg_write" /\ pc'[t] = "idle"

\* caller t finishes building its headers while the cached organization is
\* one that set_organization stored (no login has overwritten it)
BuildsAfterSetOrg(t) ==
    pc[t] = "hdr_org" /\ pc'[t] = "dispatch" /\ organization \in OrgInputs

\* set_organization changes the cached organization alone and sends no login
SetOrgChangesOrgOnly(t) ==
    /\ SetOrgDone(t) =>
          /\ organization' = frame[t].arg
          /\ token' = token /\ expires_at' = expires_at
          /\ logins' = logins
    /\ frame'[t].op = "set_organization" =>
          /\ pc'[t] \in {"setorg_acquire", "setorg_write"}
          /\ frame'[t].authCalls = 0

\* the headers caller t has built, as _auth_headers returns them
BuiltHeaders(t) == AuthHeaders(frame'[t].hdr)

\* C23 as claimed: set_organization(o) changes the cached organization only
\* (token and expires_at stay, no login is sent), and every request built
\* while o is the cached organization carries o in the organization header.
C23_SetOrgAlwaysInHeader ==
    [][\A t \in Callers :
          /\ SetOrgChangesOrgOnly(t)
          /\ BuildsAfterSetOrg(t) =>
                /\ org_header_name \in DOMAIN BuiltHeaders(t)
                /\ BuiltHeaders(t)[org_header_name] = organization]_vars

\* C23, amended: such a request carries o in the organization header when o
\* is not empty, and has no organization header when o is the empty string.
C23_SetOrgInHeaderUnlessEmpty ==
    [][\A t \in Callers :
          /\ SetOrgChangesOrgOnly(t)
          /\ BuildsAfterSetOrg(t) =>
                IF organization = ""
                THEN org_header_name \notin DOMAIN BuiltHeaders(t)
                ELSE /\ org_header_name \in DOMAIN BuiltHeaders(t)
                     /\ BuiltHeaders(t)[org_header_name] = organization]_vars

\* after a login and set_organization("oX") a request is in flight with the
\* login's token and X-Organization: oX
C23_Witness ==
    \E t \in Callers :
        /\ InFlight(t)
        /\ frame[t].hdr = [tok |-> TokenOf(1), org |-> "oX"]
        /\ frame[t].sent.headers[org_header_name] = "oX"
        /\ token = TokenOf(1) /\ organization = "oX"

\* ------------------------------------------------------------------- C24

\* the login that request_raw of caller t forced after a 401 is answered
ForcedLoginAnswered(t) == frame[t].ctx = "forced" /\ Answered(t)

\* C24: when the login forced by a 401 is answered with a status outside 2xx
\* or with a body that lacks a field, request_raw raises the authentication
\* error, having dispatched once, the session is as it was, and the lock is
\* free again.
C24_FailedForcedLoginAborts ==
    [][\A t \in Callers :
          (ForcedLoginAnswered(t)
              /\ (~Is2xx(Answer(t).status) \/ LacksField(Answer(t)))) =>
                /\ pc'[t] = "idle"
                /\ result'[t].kind = "MaestroClientError"
                /\ frame[t].dispatches = 1
                /\ <<token, organization, expires_at>>' = <<token, organization, expires_at>>
                /\ lock' = Free]_vars

\* ------------------------------------------------------------------- C25

\* caller t has an operation in progress
InProgress(t) == pc[t] # "idle"

\* C25: the lock is held only by a caller whose operation is in progress:
\* an operation that has returned or raised has released it, and with no
\* operation in progress the lock is free for the next call.
C25_LockFreeWhenIdle ==
    /\ \A t \in Callers : lock = t => InProgress(t)
    /\ (\A t \in Callers : ~InProgress(t)) => lock = Free

\* no operation is in progress after a call that a failed login ended with
\* the authentication error and a set_organization that took the lock and
\* returned, and the lock is free
C25_Witness ==
    \E t, u \in Callers :
        /\ ~InProgress(t) /\ ~InProgress(u)
        /\ result[t].kind = "MaestroClientError" /\ token = None
        /\ result[u].kind = "None" /\ organization = "oX"
        /\ lock = Free

\* ------------------------------------------------------------------- C26

\* the Authorization header of the request of caller t that is in flight
SentAuthorization(t) == frame[t].sent.headers["Authorization"]

\* v is "Bearer " and the token of a login response the server has sent
BearerOfLogin(v) == \E n \in 1..logins : v = "Bearer " \o TokenOf(n)

\* C26 as claimed: every request dispatched by request_raw, under any
\* interleaving, carries in Authorization the token of a login; "Bearer None"
\* is never sent.
C26_DispatchCarriesLoginToken ==
    \A t \in Callers :
        InFlight(t) => (BearerOfLogin(SentAuthorization(t))
                          /\ SentAuthorization(t) # "Bearer " \o None)

\* C26, amended: every request dispatched by request_raw, under any
\* interleaving, carries in Authorization the token of a login, never
\* "Bearer None", unless the caller gave an Authorization header, and then it
\* carries the caller's value.
C26_DispatchCarriesLoginTokenOrCallers ==
    \A t \in Callers :
        InFlight(t) =>
            IF "Authorization" \in DOMAIN headers
            THEN SentAuthorization(t) = headers["Authorization"]
            ELSE /\ BearerOfLogin(SentAuthorization(t))
                 /\ SentAuthorization(t) # "Bearer " \o None

\* a request given no headers is in flight with the token of the first login,
\* while the cache already holds the token of the second
C26_Witness ==
    \E t \in Callers :
        /\ InFlight(t)
        /\ headers = EmptyDict
        /\ SentAuthorization(t) = "Bearer " \o TokenOf(1)
        /\ token = TokenOf(2)


============================================================================
